---- MODULE Spec2Model ----
(***************************************************************************)
(* Model of the DeFi liquidity/yield snapshot code:                        *)
(*   - DataFetcher  (data_fetch.py): contract address selection and ABI    *)
(*     resolution (Etherscan lookup, local ABI file);                      *)
(*   - DataProcessor (data_process.py): decoding of raw Aave V3 reserve    *)
(*     tuples and raw Compound V3 market dictionaries into metric records. *)
(*                                                                         *)
(* Representation of Python values                                         *)
(*   None            the string "None"                                     *)
(*   int (raw chain) [m |-> mantissa, e |-> exponent], the integer m*10^e; *)
(*                   ray-scaled integers (about 10^27) do not fit TLC's    *)
(*                   32-bit integers, their decimal exponent is kept apart *)
(*   float           [n |-> numerator, d |-> denominator], the exact       *)
(*                   rational n/d (IEEE rounding error is not modelled)    *)
(*   exception       the exception's class name in the field "raised"      *)
(***************************************************************************)
EXTENDS Integers, Sequences, FiniteSets

VARIABLES
    layout,     \* which PROTOCOLS table the process was started with
    fetched,    \* outcome of the DataFetcher call made last
    clock,      \* the UTC wall clock read by datetime.now, in seconds
    saved,      \* a DataProcessor call whose outcome the caller has kept
    latest,     \* the DataProcessor call that has just returned, if any
    later       \* number of DataProcessor calls made after the kept one

vars == <<layout, fetched, clock, saved, latest, later>>

None == "None"

\* Python truthiness of an optional string argument: None and "" are falsy.
Falsy(x) == x \in {None, ""}

\* dict.get(key): the value, or None when the key is absent.
Get(d, k) == IF k \in DOMAIN d THEN d[k] ELSE None

(***************************************************************************)
(* config.py                                                               *)
(***************************************************************************)

\* PROTOCOLS as config.py writes it: capitalised protocol keys, address
\* names directly below them.
FlatPROTOCOLS ==
    [p \in {"Aave", "Compound"} |->
        IF p = "Aave"
        THEN [c \in {"pool_addresses_provider", "ui_pool_data_provider"} |->
                IF c = "pool_addresses_provider"
                THEN "0x2f39d218133AFaB8F2B819B1066c7E434Ad94E9e"
                ELSE "0x3F78BBD206e4D3c504Eb854232EdA7e47E9Fd8FC"]
        ELSE [c \in {"ethereum_usdc_proxy", "ethereum_usdc_implementation",
                     "ethereum_weth_proxy"} |->
                CASE c = "ethereum_usdc_proxy" ->
                        "0xc3d688B66703497DAA19211EEdff47f25384cdc3"
                  [] c = "ethereum_usdc_implementation" ->
                        "0xaeC1954467B6d823A9042E9e9D6E4F40111069a9"
                  [] OTHER ->
                        "0xA17581A9E3356d9A858b789D68B4d866e593aE94"]]

\* PROTOCOLS in the layout get_contract and aave_fetch_reserve_data index:
\* protocol -> network -> market type (aave) or base asset (compound) ->
\* contract type -> address.  The table itself is not among the source files;
\* its shape is the one data_fetch.py subscripts, its addresses are config.py's.
AaveMarkets ==
    [n \in {"ethereum"} |->
        [m \in {"core_market"} |->
            [c \in {"pool_addresses_provider", "ui_pool_data_provider"} |->
                IF c = "pool_addresses_provider"
                THEN "0x2f39d218133AFaB8F2B819B1066c7E434Ad94E9e"
                ELSE "0x3F78BBD206e4D3c504Eb854232EdA7e47E9Fd8FC"]]]

CompoundMarkets ==
    [n \in {"ethereum"} |->
        [b \in {"usdc"} |->
            [c \in {"proxy", "implementation"} |->
                IF c = "proxy"
                THEN "0xc3d688B66703497DAA19211EEdff47f25384cdc3"
                ELSE "0xaeC1954467B6d823A9042E9e9D6E4F40111069a9"]]]

NestedPROTOCOLS ==
    [p \in {"aave", "compound"} |->
        IF p = "aave" THEN AaveMarkets ELSE CompoundMarkets]

\* The keys of the PROTOCOLS table in use.
ProtocolKeys ==
    IF layout = "flat" THEN DOMAIN FlatPROTOCOLS ELSE DOMAIN NestedPROTOCOLS

\* PROTOCOLS[protocol] for the table in use.
ProtocolConfig(protocol) ==
    IF layout = "flat" THEN FlatPROTOCOLS[protocol] ELSE NestedPROTOCOLS[protocol]

(***************************************************************************)
(* data_fetch.py: DataFetcher                                              *)
(*                                                                         *)
(* The outside world of one call is an input of the call:                  *)
(*   resp   what the Etherscan request does: "verified" (status "1", an    *)
(*          ABI), "verified_empty" (status "1", the ABI "[]"),             *)
(*          "not_verified" (status other than "1"), "request_error"        *)
(*          (requests.get or response.json raises)                         *)
(*   files  the set of paths that exist on disk                            *)
(* io lists the call's external accesses in order: "etherscan", "file".    *)
(***************************************************************************)

EtherscanAbi == "abi:etherscan"
EmptyAbi == "abi:[]"
FileAbi == "abi:file"

\* Python truthiness of an ABI value: None and the empty list are falsy.
AbiFalsy(abi) == abi \in {None, EmptyAbi}

\* fetch_abi_from_etherscan: one HTTP request; the ABI on status "1", None on
\* any other status; an exception of requests.get/response.json propagates.
fetch_abi_from_etherscan(contract_address, resp) ==
    CASE resp = "request_error" ->
            [raised |-> "RequestException", value |-> None, io |-> <<"etherscan">>]
      [] resp = "verified" ->
            [raised |-> "none", value |-> EtherscanAbi, io |-> <<"etherscan">>]
      [] resp = "verified_empty" ->
            [raised |-> "none", value |-> EmptyAbi, io |-> <<"etherscan">>]
      [] OTHER ->
            [raised |-> "none", value |-> None, io |-> <<"etherscan">>]

\* load_abi_from_file: FileNotFoundError when the path does not exist, else
\* the parsed content of the file.
load_abi_from_file(abi_path, files) ==
    IF abi_path \notin files
    THEN [raised |-> "FileNotFoundError", value |-> None, io |-> <<"file">>]
    ELSE [raised |-> "none", value |-> FileAbi, io |-> <<"file">>]

\* get_abi: Etherscan first; the local file when Etherscan returned a falsy ABI.
get_abi(contract_address, abi_path, resp, files) ==
    LET abi == fetch_abi_from_etherscan(contract_address, resp) IN
    IF abi.raised # "none" THEN abi
    ELSE IF ~AbiFalsy(abi.value) THEN abi
    ELSE LET f == load_abi_from_file(abi_path, files) IN
         [raised |-> f.raised, value |-> f.value, io |-> abi.io \o f.io]

Resolved(address) == [raised |-> "none", message |-> "", address |-> address]
Rejected(exc, msg) == [raised |-> exc, message |-> msg, address |-> None]

\* get_contract, lines 65-66: a protocol that has a table but is neither
\* "aave" nor "compound".
\* Variant: no else branch; the address is looked up directly below the
\* protocol's key.
OtherProtocolFlatLookup(config, contract_type) ==
    IF Falsy(Get(config, contract_type))
    THEN Rejected("ValueError", "Contract not found")
    ELSE Resolved(config[contract_type])

\* As written: the call is rejected.
OtherProtocol(config, contract_type) ==
    Rejected("ValueError", "Unsupported protocol")

\* get_contract, lines 48-69: the protocol's table, the per-protocol
\* validation of the selectors and the address lookup.  A subscript of a
\* missing network, market type or base asset is a KeyError.
SelectAddress(protocol, network, base_asset, contract_type, market_type) ==
    IF protocol \notin ProtocolKeys
    THEN Rejected("ValueError", "Protocol not found in config")
    ELSE LET config == ProtocolConfig(protocol) IN
         IF protocol = "aave"
         THEN IF Falsy(market_type) \/ Falsy(contract_type)
              THEN Rejected("ValueError", "Aave requires market_type and contract_type")
              ELSE IF network \notin DOMAIN config
                      \/ market_type \notin DOMAIN config[network]
              THEN Rejected("KeyError", "")
              ELSE IF Falsy(Get(config[network][market_type], contract_type))
              THEN Rejected("ValueError", "Contract not found")
              ELSE Resolved(config[network][market_type][contract_type])
         ELSE IF protocol = "compound"
         THEN IF Falsy(base_asset) \/ Falsy(contract_type)
              THEN Rejected("ValueError", "Compound requires base_asset and contract_type")
              ELSE IF network \notin DOMAIN config
                      \/ base_asset \notin DOMAIN config[network]
              THEN Rejected("KeyError", "")
              ELSE IF Falsy(Get(config[network][base_asset], contract_type))
              THEN Rejected("ValueError", "Contract not found")
              ELSE Resolved(config[network][base_asset][contract_type])
         ELSE OtherProtocol(config, contract_type)

\* get_contract, lines 71-77: the ABI comes from the file when abi_path is
\* truthy, from Etherscan otherwise.
\* Variant: a given path goes through get_abi (Etherscan first, then the file).
ContractAbiWithFallback(abi_path, contract_address, resp, files) ==
    IF ~Falsy(abi_path)
    THEN get_abi(contract_address, abi_path, resp, files)
    ELSE fetch_abi_from_etherscan(contract_address, resp)

\* As written.
ContractAbi(abi_path, contract_address, resp, files) ==
    IF ~Falsy(abi_path)
    THEN load_abi_from_file(abi_path, files)
    ELSE fetch_abi_from_etherscan(contract_address, resp)

NoContract == [address |-> None, abi |-> None]

\* get_contract: the outcome of one call.
get_contract(protocol, network, base_asset, contract_type, market_type, abi_path, resp, files) ==
    LET sel == SelectAddress(protocol, network, base_asset, contract_type, market_type) IN
    IF sel.raised # "none"
    THEN [raised |-> sel.raised, message |-> sel.message, io |-> <<>>,
          contract |-> NoContract]
    ELSE LET contract_abi == ContractAbi(abi_path, sel.address, resp, files) IN
         IF contract_abi.raised # "none"
         THEN [raised |-> contract_abi.raised, message |-> "", io |-> contract_abi.io,
               contract |-> NoContract]
         ELSE [raised |-> "none", message |-> "", io |-> contract_abi.io,
               contract |-> [address |-> sel.address, abi |-> contract_abi.value]]

\* Arguments and outside worlds the calls are tried on.
Protocols == {"aave", "compound", "Aave", "uniswap"}
Networks == {"ethereum", "polygon"}
BaseAssets == {None, "usdc"}
ContractTypes == {None, "ui_pool_data_provider", "proxy"}
MarketTypes == {None, "core_market", "prime_market"}
AbiPaths == {None, "", "abis/ui_pool_data_provider.json"}
Responses == {"verified", "verified_empty", "not_verified", "request_error"}
Disks == {{}, {"abis/ui_pool_data_provider.json"}}
Addresses == {"0x3F78BBD206e4D3c504Eb854232EdA7e47E9Fd8FC"}

NoArgs ==
    [protocol |-> None, network |-> None, base_asset |-> None,
     contract_type |-> None, market_type |-> None, abi_path |-> None,
     contract_address |-> None]

NotFetched ==
    [op |-> "none", args |-> NoArgs, resp |-> "not_verified", files |-> {},
     raised |-> "none", message |-> "", io |-> <<>>, contract |-> NoContract,
     abi |-> None]

\* A call of DataFetcher.get_contract.
GetContract ==
    \E protocol \in Protocols, network \in Networks, base_asset \in BaseAssets,
       contract_type \in ContractTypes, market_type \in MarketTypes,
       abi_path \in AbiPaths, resp \in Responses, files \in Disks :
        LET r == get_contract(protocol, network, base_asset, contract_type,
                              market_type, abi_path, resp, files) IN
        /\ fetched.op = "none"
        /\ fetched' =
             [op |-> "get_contract",
              args |-> [protocol |-> protocol, network |-> network,
                        base_asset |-> base_asset, contract_type |-> contract_type,
                        market_type |-> market_type, abi_path |-> abi_path,
                        contract_address |-> None],
              resp |-> resp, files |-> files,
              raised |-> r.raised, message |-> r.message, io |-> r.io,
              contract |-> r.contract, abi |-> None]
        /\ UNCHANGED <<layout, clock, saved, latest, later>>

\* A call of DataFetcher.get_abi.
GetAbi ==
    \E contract_address \in Addresses, abi_path \in AbiPaths \ {None},
       resp \in Responses, files \in Disks :
        LET r == get_abi(contract_address, abi_path, resp, files) IN
        /\ fetched.op = "none"
        /\ fetched' =
             [op |-> "get_abi",
              args |-> [NoArgs EXCEPT !.abi_path = abi_path,
                                      !.contract_address = contract_address],
              resp |-> resp, files |-> files,
              raised |-> r.raised, message |-> "", io |-> r.io,
              contract |-> NoContract, abi |-> r.value]
        /\ UNCHANGED <<layout, clock, saved, latest, later>>

\* The caller has taken the outcome of its DataFetcher call (the contract, the
\* ABI or the exception) and the fetcher, which keeps nothing of a call but
\* web3_instance, is ready for the next one.
FetcherReturns ==
    /\ fetched.op # "none"
    /\ fetched' = NotFetched
    /\ UNCHANGED <<layout, clock, saved, latest, later>>

(***************************************************************************)
(* Python numbers                                                          *)
(***************************************************************************)

\* The integer m * 10^e.
Big(m, e) == [m |-> m, e |-> e]

RECURSIVE GCD(_, _)
GCD(a, b) == IF b = 0 THEN a ELSE GCD(b, a % b)

\* The float n/d, in lowest terms.
Rat(n, d) == LET g == GCD(n, d) IN [n |-> n \div g, d |-> d \div g]

Zero == Rat(0, 1)

\* int * int.
IntMul(a, b) == Big(a.m * b.m, a.e + b.e)

\* int / int (true division, b # 0): a float.
TrueDiv(a, b) ==
    IF a.m = 0 THEN Rat(0, 1)
    ELSE IF a.e >= b.e
    THEN Rat(a.m * 10^(a.e - b.e), b.m)
    ELSE Rat(a.m, b.m * 10^(b.e - a.e))

\* float + int.
FloatAddInt(x, a) == Rat(x.n + a.m * 10^a.e * x.d, x.d)

\* float / float, y # 0.
FloatDiv(x, y) == Rat(x.n * y.d, x.d * y.n)

\* float * 100.
Times100(x) == Rat(x.n * 100, x.d)

\* round(x, 2) for x >= 0: the nearest hundredth, a tie going to the even one.
Round2(x) ==
    LET q == (x.n * 100) \div x.d
        r == (x.n * 100) % x.d
        h == IF 2 * r > x.d THEN q + 1
             ELSE IF 2 * r = x.d THEN q + (q % 2)
             ELSE q
    IN Rat(h, 100)


(***************************************************************************)
(* data_process.py: DataProcessor                                          *)
(***************************************************************************)

\* RAY = 10**27.
RAY_EXPONENT == 27
RAY == Big(1, RAY_EXPONENT)

\* ((1 + apr / SECONDS_PER_YEAR) ** SECONDS_PER_YEAR - 1) * 100: the float
\* power is not evaluated; the APY is kept as the term over the APR it is
\* computed from (rates stay far below the 710-fold APR at which the power
\* overflows a float).
ApyPercent(apr) == [apy_percent_of_apr |-> apr]

\* variable_borrow_apy - lending_apy, and round(_, 2) of such terms.
ApyDifference(a, b) == [minuend |-> a, subtrahend |-> b]
Round2Term(t) == [round2_of |-> t]

\* asset[i], i counted from 0 as in Python.
At(asset, i) == asset[i + 1]

\* The positions aave_process_reserve_data reads of a reserve tuple.
ReadPositions == {0, 1, 2, 3, 4, 5, 6, 13, 21, 20, 14, 15, 36, 37}

\* line 56: tvl = total_variable_debt + available_liquidity.
\* Variant: the debt is left out of the sum.
TvlLiquidityOnly(total_variable_debt, available_liquidity) ==
    FloatAddInt(Zero, available_liquidity)

\* As written.
Tvl(total_variable_debt, available_liquidity) ==
    FloatAddInt(total_variable_debt, available_liquidity)

\* float / float: ZeroDivisionError when the divisor is zero.
FloatTrueDiv(x, y) ==
    IF y.n = 0
    THEN [raised |-> "ZeroDivisionError", value |-> Zero]
    ELSE [raised |-> "none", value |-> FloatDiv(x, y)]

\* line 59: (total_variable_debt / tvl) if tvl > 0 else 0.
\* Variant: the division without the condition.
UtilizationUnguarded(total_variable_debt, tvl) ==
    FloatTrueDiv(total_variable_debt, tvl)

\* As written.
UtilizationRate(total_variable_debt, tvl) ==
    IF tvl.n > 0
    THEN FloatTrueDiv(total_variable_debt, tvl)
    ELSE [raised |-> "none", value |-> Zero]

NoRecord == [protocol |-> None]

\* lines 79-98: the record of one reserve.
AssetData(asset, network, tvl, total_variable_debt, utilization_rate, now) ==
    LET lending_apy == ApyPercent(TrueDiv(At(asset, 14), RAY))
        variable_borrow_apy == ApyPercent(TrueDiv(At(asset, 15), RAY))
        spread == ApyDifference(variable_borrow_apy, lending_apy)
    IN [protocol |-> "Aave V3",
        network |-> network,
        asset_address |-> At(asset, 0),
        asset_name |-> At(asset, 1),
        symbol |-> At(asset, 2),
        decimals |-> At(asset, 3),
        ltv_percent |-> Round2(TrueDiv(At(asset, 4), Big(100, 0))),
        liquidation_threshold_percent |-> Round2(TrueDiv(At(asset, 5), Big(100, 0))),
        liquidation_bonus |-> At(asset, 6),
        tvl |-> Round2(tvl),
        total_variable_debt |-> Round2(total_variable_debt),
        utilization_rate_percent |-> Round2(Times100(utilization_rate)),
        lending_apy_percent |-> Round2Term(lending_apy),
        variable_borrow_apy_percent |-> Round2Term(variable_borrow_apy),
        spread_percent |-> Round2Term(spread),
        borrow_cap |-> At(asset, 36),
        supply_cap |-> At(asset, 37),
        load_datetime |-> now]

\* lines 40-98: one iteration of the loop.  A read past the end of the tuple
\* raises IndexError.
ProcessAsset(asset, network, now) ==
    IF \E i \in ReadPositions : i >= Len(asset)
    THEN [raised |-> "IndexError", record |-> NoRecord]
    ELSE LET variable_borrow_index == At(asset, 13)
             total_scaled_variable_debt == At(asset, 21)
             available_liquidity == At(asset, 20)
             total_variable_debt ==
                 TrueDiv(IntMul(total_scaled_variable_debt, variable_borrow_index), RAY)
             tvl == Tvl(total_variable_debt, available_liquidity)
             utilization_rate == UtilizationRate(total_variable_debt, tvl)
         IN IF utilization_rate.raised # "none"
            THEN [raised |-> utilization_rate.raised, record |-> NoRecord]
            ELSE [raised |-> "none",
                  record |-> AssetData(asset, network, tvl, total_variable_debt,
                                       utilization_rate.value, now)]

\* lines 99 and 129: processed_data.append(...).
\* Variant: insert(0, ...).
CollectInFront(processed_data, record) == <<record>> \o processed_data

\* As written.
Collect(processed_data, record) == Append(processed_data, record)

\* line 37: network = raw_data[1].
\* Variant: the network is not taken from the input.
NetworkMissing(raw_data) == None

\* As written.
NetworkOf(raw_data) == raw_data.network

\* lines 34 and 113: processed_data = [], a list of the call.
\* Variant: a list shared by the calls, still holding the records of the
\* kept call.
LeftoverProcessedData == IF saved.entry = "none" THEN <<>> ELSE saved.records

\* As written.
NewProcessedData == <<>>

\* lines 39-99: the loop over the reserves; an exception ends the call and
\* nothing is returned.  stamps[i] is the clock reading of iteration i.
RECURSIVE AaveLoop(_, _, _, _, _)
AaveLoop(reserves, network, stamps, i, processed_data) ==
    IF i > Len(reserves)
    THEN [raised |-> "none", records |-> processed_data]
    ELSE LET a == ProcessAsset(reserves[i], network, stamps[i]) IN
         IF a.raised # "none"
         THEN [raised |-> a.raised, records |-> <<>>]
         ELSE AaveLoop(reserves, network, stamps, i + 1,
                       Collect(processed_data, a.record))

\* The keys process_compound_market_data reads of a market dictionary.
ReadKeys == {"decimals", "network", "base_asset", "base_token", "reserves",
             "total_supply", "total_borrow", "utilization_rate"}

\* lines 118-128: the record of one market; a missing key raises KeyError.
BaseAssetData(base_asset) ==
    IF \E k \in ReadKeys : k \notin DOMAIN base_asset
    THEN [raised |-> "KeyError", record |-> NoRecord]
    ELSE LET decimals == Big(1, base_asset["decimals"]) IN
         [raised |-> "none",
          record |->
            [protocol |-> "Compound V3",
             network |-> base_asset["network"],
             base_asset |-> base_asset["base_asset"],
             base_token |-> base_asset["base_token"],
             reserves |-> TrueDiv(base_asset["reserves"], decimals),
             total_supply |-> TrueDiv(base_asset["total_supply"], decimals),
             total_borrow |-> TrueDiv(base_asset["total_borrow"], decimals),
             utilization_rate_percent |->
                 Times100(TrueDiv(base_asset["utilization_rate"], Big(1, 18)))]]

RECURSIVE CompoundLoop(_, _, _)
CompoundLoop(base_assets, i, processed_data) ==
    IF i > Len(base_assets)
    THEN [raised |-> "none", records |-> processed_data]
    ELSE LET b == BaseAssetData(base_assets[i]) IN
         IF b.raised # "none"
         THEN [raised |-> b.raised, records |-> <<>>]
         ELSE CompoundLoop(base_assets, i + 1, Collect(processed_data, b.record))

\* process_compound_market_data: iterating [[r], n] subscripts the list [r]
\* with the string "decimals", a TypeError.
process_compound_market_data(raw_data) ==
    IF raw_data.shape = "reserves"
    THEN [raised |-> "TypeError", records |-> <<>>]
    ELSE CompoundLoop(raw_data.markets, 1, NewProcessedData)

\* Variant of aave_process_reserve_data: a dispatch on the input's shape
\* inside the method.
AaveProcessDispatching(raw_data, stamps) ==
    IF raw_data.shape = "markets"
    THEN CompoundLoop(raw_data.markets, 1, NewProcessedData)
    ELSE AaveLoop(raw_data.reserves, NetworkOf(raw_data), stamps, 1, NewProcessedData)

\* A raw input is tagged with its Python shape:
\*   [shape |-> "reserves", reserves |-> r, network |-> n]  is  [[r], n]
\*   [shape |-> "markets", markets |-> m]                   is  the list m of dicts
\* aave_process_reserve_data: raw_data[0][0] of a list of dicts is a KeyError
\* (the dict has no key 0), of an empty list an IndexError.
aave_process_reserve_data(raw_data, stamps) ==
    IF raw_data.shape = "markets"
    THEN IF raw_data.markets = <<>>
         THEN [raised |-> "IndexError", records |-> <<>>]
         ELSE [raised |-> "KeyError", records |-> <<>>]
    ELSE AaveLoop(raw_data.reserves, NetworkOf(raw_data), stamps, 1, NewProcessedData)

(***************************************************************************)
(* Raw inputs the DataProcessor calls are tried on                         *)
(***************************************************************************)

MaxAssets == 3          \* reserves, or markets, in one raw input
MaxRepeatAssets == 1    \* the same, in the runs that keep a call to compare
MaxClock == 2           \* seconds the wall clock runs for
MaxLater == 2           \* calls counted after the kept one
MaxScaledDebt == 4      \* total_scaled_variable_debt in the metric inputs
MaxLiquidity == 5       \* available_liquidity in the metric inputs

AssetAddress(symbol) ==
    CASE symbol = "DAI" -> "0x6B175474E89094C44Da98b954EedeAC495271d0F"
      [] symbol = "WETH" -> "0xC02aaA39b223FE8D0A0e5C4F27eAD9083C756Cc2"
      [] OTHER -> "0xA0b86991c6218b36c1d19D4a2e9Eb0cE3606eB48"

\* A reserve tuple of UiPoolDataProvider.getReservesData cut to `length`
\* positions; the positions the processor does not read hold 0.
ReserveTuple(symbol, total_scaled_variable_debt, variable_borrow_index, available_liquidity, length) ==
    [i \in 1..length |->
        CASE i - 1 = 0 -> AssetAddress(symbol)
          [] i - 1 = 1 -> symbol
          [] i - 1 = 2 -> symbol
          [] i - 1 = 3 -> 18
          [] i - 1 = 4 -> Big(8000, 0)
          [] i - 1 = 5 -> Big(8250, 0)
          [] i - 1 = 6 -> 10500
          [] i - 1 = 13 -> variable_borrow_index
          [] i - 1 = 14 -> Big(3, 25)
          [] i - 1 = 15 -> Big(5, 25)
          [] i - 1 = 20 -> available_liquidity
          [] i - 1 = 21 -> total_scaled_variable_debt
          [] i - 1 = 36 -> 0
          [] i - 1 = 37 -> 2000000
          [] OTHER -> 0]

FullLength == 38

ReserveTuples ==
    { ReserveTuple("DAI", Big(8, 0), Big(125, 25), Big(30, 0), FullLength),
      ReserveTuple("WETH", Big(0, 0), Big(1, 27), Big(0, 0), FullLength),
      ReserveTuple("USDC", Big(1, 0), Big(1005, 24), Big(0, 0), FullLength),
      ReserveTuple("DAI", Big(8, 0), Big(125, 25), Big(30, 0), FullLength - 1),
      ReserveTuple("WETH", Big(0, 0), Big(1, 27), Big(0, 0), 14) }

Market(base_asset, reserves, total_borrow, utilization_rate) ==
    [decimals |-> 6, network |-> "ethereum", base_asset |-> base_asset,
     base_token |-> AssetAddress(base_asset), reserves |-> reserves,
     total_supply |-> Big(8, 6), total_borrow |-> total_borrow,
     utilization_rate |-> utilization_rate]

Markets ==
    { Market("USDC", Big(5, 5), Big(2, 6), Big(25, 16)),
      Market("WETH", Big(0, 0), Big(0, 0), Big(0, 0)),
      [decimals |-> 6, network |-> "ethereum", base_asset |-> "USDC",
       base_token |-> AssetAddress("USDC"), reserves |-> Big(5, 5)] }

SeqsUpTo(S, n) == UNION { [1..k -> S] : k \in 0..n }

ReservesInput(reserves, network) ==
    [shape |-> "reserves", reserves |-> reserves, network |-> network, markets |-> <<>>]

MarketsInput(markets) ==
    [shape |-> "markets", reserves |-> <<>>, network |-> None, markets |-> markets]

ReserveInputs == { ReservesInput(r, "ethereum") : r \in SeqsUpTo(ReserveTuples, MaxAssets) }
MarketInputs == { MarketsInput(m) : m \in SeqsUpTo(Markets, MaxAssets) }

RepeatReserveInputs ==
    { ReservesInput(r, "ethereum") : r \in SeqsUpTo(ReserveTuples, MaxRepeatAssets) }
RepeatMarketInputs == { MarketsInput(m) : m \in SeqsUpTo(Markets, MaxRepeatAssets) }

\* Inputs of the other method's shape, handed to the wrong method.
MisroutedToAave == { MarketsInput(m) : m \in SeqsUpTo(Markets, 1) }
MisroutedToCompound == { ReservesInput(r, "ethereum") : r \in SeqsUpTo(ReserveTuples, 1) }

\* One full-length reserve over a range of debts, indices and liquidities.
IndexValues == { Big(1, 27), Big(125, 25), Big(1005, 24), Big(2, 27), Big(0, 0) }

MetricInputs ==
    { ReservesInput(<<ReserveTuple("DAI", Big(d, 0), x, Big(l, 0), FullLength)>>, "ethereum") :
        d \in 0..MaxScaledDebt, x \in IndexValues, l \in 0..MaxLiquidity }

\* Clock readings of n loop iterations starting no earlier than `from`.
Stamps(n, from) ==
    { t \in [1..n -> from..MaxClock] : \A i \in 1..n : i > 1 => t[i - 1] <= t[i] }

(***************************************************************************)
(* DataProcessor calls                                                     *)
(***************************************************************************)

NoCall == [entry |-> "none"]

Bump == IF saved.entry = "none" THEN later
        ELSE IF later < MaxLater THEN later + 1 ELSE later

\* A call of DataProcessor.aave_process_reserve_data on an input of `inputs`.
AaveProcess(inputs) ==
    /\ latest.entry = "none"
    /\ \E raw \in inputs :
         \E stamps \in Stamps(Len(raw.reserves), clock) :
            LET r == aave_process_reserve_data(raw, stamps) IN
            /\ latest' = [entry |-> "aave_process_reserve_data", raw |-> raw,
                          raised |-> r.raised, records |-> r.records]
            /\ clock' = IF stamps = <<>> THEN clock ELSE stamps[Len(stamps)]
    /\ later' = Bump
    /\ UNCHANGED <<layout, fetched, saved>>

\* A call of DataProcessor.process_compound_market_data.
CompoundProcess(inputs) ==
    /\ latest.entry = "none"
    /\ \E raw \in inputs :
         LET r == process_compound_market_data(raw) IN
         latest' = [entry |-> "process_compound_market_data", raw |-> raw,
                    raised |-> r.raised, records |-> r.records]
    /\ later' = Bump
    /\ UNCHANGED <<layout, fetched, clock, saved>>

\* The caller keeps the outcome of the call that has just returned.
CallerKeeps ==
    /\ saved.entry = "none"
    /\ latest.entry # "none"
    /\ saved' = latest
    /\ UNCHANGED <<layout, fetched, clock, latest, later>>

\* The caller is done with the outcome of the call; the processor, which has
\* no attributes, is ready for the next call.
ProcessorReturns ==
    /\ latest.entry # "none"
    /\ latest' = NoCall
    /\ UNCHANGED <<layout, fetched, clock, saved, later>>

\* A second passes on the wall clock.
Tick ==
    /\ clock < MaxClock
    /\ clock' = clock + 1
    /\ UNCHANGED <<layout, fetched, saved, latest, later>>

Init ==
    /\ layout \in {"flat", "nested"}
    /\ fetched = NotFetched
    /\ clock = 0
    /\ saved = NoCall
    /\ latest = NoCall
    /\ later = 0

FetchNext == GetContract \/ GetAbi \/ FetcherReturns

ProcessNext ==
    \/ AaveProcess(ReserveInputs \cup MisroutedToAave)
    \/ CompoundProcess(MarketInputs \cup MisroutedToCompound)
    \/ ProcessorReturns
    \/ Tick

RepeatNext ==
    \/ AaveProcess(RepeatReserveInputs \cup MisroutedToAave)
    \/ CompoundProcess(RepeatMarketInputs \cup MisroutedToCompound)
    \/ CallerKeeps
    \/ ProcessorReturns
    \/ Tick

MetricsNext == AaveProcess(MetricInputs) \/ ProcessorReturns \/ Tick

Next == FetchNext \/ ProcessNext \/ RepeatNext \/ MetricsNext

Spec == Init /\ [][Next]_vars

\* The fetcher alone; the processor alone, call by call; the processor with
\* one call's outcome kept for comparison; the processor on the metric inputs.
SpecFetch == Init /\ [][FetchNext]_vars
SpecProcess == Init /\ [][ProcessNext]_vars
SpecRepeat == Init /\ [][RepeatNext]_vars
SpecMetrics == Init /\ [][MetricsNext]_vars

(***************************************************************************)
(* Properties of DataFetcher                                               *)
(***************************************************************************)

KnownProtocols == {"aave", "compound"}

\* C1: a get_contract call whose protocol is neither "aave" nor "compound"
\* ends in one ValueError that rejects the protocol, before any Etherscan
\* request or ABI file read, and returns no contract.
C1_UnknownProtocolFails ==
    (fetched.op = "get_contract" /\ fetched.args.protocol \notin KnownProtocols)
        => /\ fetched.raised = "ValueError"
           /\ fetched.message \in {"Protocol not found in config", "Unsupported protocol"}
           /\ fetched.io = <<>>
           /\ fetched.contract = NoContract

\* An unknown protocol that has a table (config.py's "Aave") was rejected by
\* the final else branch although every other argument was usable.
C1_Witness ==
    /\ fetched.op = "get_contract"
    /\ fetched.args.protocol \notin KnownProtocols
    /\ fetched.args.contract_type = "ui_pool_data_provider"
    /\ fetched.args.market_type = "core_market"
    /\ fetched.resp = "verified"
    /\ fetched.message = "Unsupported protocol"

\* C9 (as claimed): get_abi asks Etherscan first; it does not read the local
\* file when Etherscan delivered an ABI; and whenever the Etherscan attempt
\* fails (status other than "1", or the request itself fails) the local file
\* is read before the call reports anything to the caller.
C9_EtherscanThenFile ==
    fetched.op = "get_abi"
        => /\ fetched.io # <<>> /\ fetched.io[1] = "etherscan"
           /\ fetched.resp = "verified" => fetched.io = <<"etherscan">>
           /\ fetched.resp \in {"not_verified", "request_error"}
                 => fetched.io = <<"etherscan", "file">>

AaveEntry == "aave_process_reserve_data"
CompoundEntry == "process_compound_market_data"

\* The calls whose outcome is at hand.
Calls == { c \in {saved, latest} : c.entry # "none" }

FullTuple(t) == Len(t) >= FullLength
WellFormedReserves(raw) ==
    raw.shape = "reserves" /\ \A i \in 1..Len(raw.reserves) : FullTuple(raw.reserves[i])
WellFormedMarkets(raw) ==
    raw.shape = "markets" /\ \A i \in 1..Len(raw.markets) : ReadKeys \subseteq DOMAIN raw.markets[i]

\* C2 (as claimed): when a reserve tuple of the batch is shorter than the 38
\* positions read, the call either fails with MalformedTupleError or returns
\* exactly the records of the full tuples; it raises nothing else.
C2_ShortTupleHandled ==
    \A c \in Calls :
        (c.entry = AaveEntry /\ c.raw.shape = "reserves"
         /\ \E i \in 1..Len(c.raw.reserves) : ~FullTuple(c.raw.reserves[i]))
            => /\ c.raised \in {"none", "MalformedTupleError"}
               /\ c.raised = "none"
                    => Len(c.records) =
                         Cardinality({ i \in 1..Len(c.raw.reserves) : FullTuple(c.raw.reserves[i]) })

\* total variable debt 0 (no scaled debt, or a zero index) and no liquidity.
ZeroTvlTuple(t) == (t[22].m = 0 \/ t[14].m = 0) /\ t[21].m = 0

\* C3: a call on full reserve tuples raises nothing, in particular no
\* ZeroDivisionError, and the record of a reserve whose TVL is 0 has
\* utilization rate 0.
C3_ZeroTvlZeroUtilization ==
    (latest.entry = AaveEntry /\ WellFormedReserves(latest.raw))
        => /\ latest.raised = "none"
           /\ \A i \in 1..Len(latest.raw.reserves) :
                ZeroTvlTuple(latest.raw.reserves[i])
                    => latest.records[i].utilization_rate_percent = Rat(0, 1)

\* A reserve with scaled debt but a zero index and no liquidity was processed.
C3_Witness ==
    /\ latest.entry = AaveEntry
    /\ latest.raised = "none"
    /\ Len(latest.records) = 1
    /\ latest.raw.reserves[1][22].m > 0
    /\ ZeroTvlTuple(latest.raw.reserves[1])
    /\ latest.records[1].tvl = Rat(0, 1)

\* C4: in every record of non-negative inputs, tvl is total_variable_debt
\* plus the tuple's available liquidity (all to 2 decimals) and the
\* utilization rate in percent lies in [0, 100].
C4_TvlAndUtilizationRange ==
    (latest.entry = AaveEntry /\ WellFormedReserves(latest.raw))
        => \A i \in 1..Len(latest.records) :
             LET rec == latest.records[i]
                 liquidity == latest.raw.reserves[i][21]
             IN /\ rec.tvl.n * rec.total_variable_debt.d
                     = (rec.total_variable_debt.n
                          + liquidity.m * 10^liquidity.e * rec.total_variable_debt.d) * rec.tvl.d
                /\ rec.utilization_rate_percent.n >= 0
                /\ rec.utilization_rate_percent.n <= 100 * rec.utilization_rate_percent.d

\* A reserve with fractional debt and a utilization strictly between 0 and 100.
C4_Witness ==
    /\ latest.entry = AaveEntry
    /\ latest.raised = "none"
    /\ Len(latest.records) = 1
    /\ latest.records[1].total_variable_debt.d > 1
    /\ latest.records[1].utilization_rate_percent.n > 0
    /\ latest.records[1].utilization_rate_percent.n
         < 100 * latest.records[1].utilization_rate_percent.d

\* C5: on well-formed input either method returns one record per raw tuple,
\* the i-th record being that of the i-th tuple; empty input gives an empty
\* result and no error.
C5_OneRecordPerTupleInOrder ==
    \A c \in Calls :
        /\ (c.entry = AaveEntry /\ WellFormedReserves(c.raw))
              => /\ c.raised = "none"
                 /\ Len(c.records) = Len(c.raw.reserves)
                 /\ \A i \in 1..Len(c.raw.reserves) :
                        /\ c.records[i].asset_address = c.raw.reserves[i][1]
                        /\ c.records[i].symbol = c.raw.reserves[i][3]
        /\ (c.entry = CompoundEntry /\ WellFormedMarkets(c.raw))
              => /\ c.raised = "none"
                 /\ Len(c.records) = Len(c.raw.markets)
                 /\ \A i \in 1..Len(c.raw.markets) :
                        /\ c.records[i].base_asset = c.raw.markets[i].base_asset
                        /\ c.records[i].base_token = c.raw.markets[i].base_token

\* Two different reserves came back in input order.
C5_Witness ==
    /\ latest.entry = AaveEntry
    /\ latest.raised = "none"
    /\ Len(latest.records) = 2
    /\ latest.raw.reserves[1][3] = "WETH"
    /\ latest.raw.reserves[2][3] = "DAI"
    /\ latest.records[1].symbol = "WETH"
    /\ latest.records[2].symbol = "DAI"

SchemaFields ==
    {"protocol", "network", "asset_address", "asset_name", "symbol", "decimals",
     "ltv_percent", "liquidation_threshold_percent", "liquidation_bonus", "tvl",
     "total_variable_debt", "utilization_rate_percent", "lending_apy_percent",
     "variable_borrow_apy_percent", "spread_percent", "borrow_cap", "supply_cap",
     "load_datetime"}

CompoundFields ==
    {"protocol", "network", "base_asset", "base_token", "reserves", "total_supply",
     "total_borrow", "utilization_rate_percent"}

TextFields == {"protocol", "network", "asset_address", "asset_name", "symbol",
               "base_asset", "base_token"}
FloatFields == {"ltv_percent", "liquidation_threshold_percent", "tvl",
                "total_variable_debt", "utilization_rate_percent", "reserves",
                "total_supply", "total_borrow"}

\* No text cell is None and every float cell is a number.
NoNullCell(rec) ==
    /\ \A f \in DOMAIN rec \cap TextFields : rec[f] # None
    /\ \A f \in DOMAIN rec \cap FloatFields : rec[f].d > 0

WithoutTimestamp(rec) == [f \in DOMAIN rec \ {"load_datetime"} |-> rec[f]]

HasAddress(a) ==
    /\ layout = "nested"
    /\ a.protocol \in DOMAIN NestedPROTOCOLS
    /\ a.network \in DOMAIN NestedPROTOCOLS[a.protocol]
    /\ LET selector == IF a.protocol = "aave" THEN a.market_type ELSE a.base_asset IN
       /\ selector \in DOMAIN NestedPROTOCOLS[a.protocol][a.network]
       /\ a.contract_type \in DOMAIN NestedPROTOCOLS[a.protocol][a.network][selector]

====
